---- MODULE Spec2Model ----
(***************************************************************************)
(* Model of bot/helper/mirror_leech_utils/gdrive_utils/download.py:        *)
(* GoogleDriveDownload.download, _download_folder and _download_file       *)
(* (with its tenacity @retry wrapper), run by one worker thread against a  *)
(* caller that may set listener.is_cancelled at any moment and a Drive     *)
(* transport whose requests may fail.                                      *)
(*                                                                         *)
(* Strings are sequences of one-character strings, so that replace, strip, *)
(* lower, endswith, splitext and slicing are computed as Python computes   *)
(* them.  The call stack of the worker is the sequence `stack'; the frame  *)
(* on top is the one that runs.  An exception in flight is held in `exc'.  *)
(***************************************************************************)
EXTENDS Integers, Sequences, FiniteSets, TLC

\* ------------------------------------------------------------- bounds
\* non-transient failures the transport injects in one run
MaxFaults == 2
\* transient-status failures the transport injects in one run
MaxTransient == 1
\* non-transient failures injected in a run whose link names a file
MaxFaultsFile == 4
\* the two budgets for the runs that exhaust the in-place retries
MaxTransientLong == 11
MaxFaultsLong == 1
\* chunks of every remote object
NChunks == 2
\* number of service-account files (sa_number)
SaNumber == 1

\* ------------------------------------------------- program constants
RetryCeiling == 10
StopAfterAttempt == 3
NameMaxBytes == 255
NameKeepChars == 245
TransientStatus == {500, 502, 503, 504, 429}
QuotaReasons == {"downloadQuotaExceeded", "dailyLimitExceeded"}
G_DRIVE_DIR_MIME_TYPE == "application/vnd.google-apps.folder"
DocMime == "application/vnd.google-apps.document"
BinMime == "application/octet-stream"

\* ------------------------------------------------------------ strings
None == "None"

Whitespace == {" "}

\* code points of the characters the model uses (ordering of sorted())
Ord(c) ==
    CASE c = " " -> 32
      [] c = "." -> 46
      [] c = "/" -> 47
      [] c = "S" -> 83
      [] c = "X" -> 88
      [] c = "a" -> 97
      [] c = "b" -> 98
      [] c = "c" -> 99
      [] c = "d" -> 100
      [] c = "f" -> 102
      [] c = "p" -> 112
      [] c = "x" -> 120
      [] c = "E" -> 233
      [] OTHER -> 0

\* bytes of the UTF-8 encoding of one character ("E" stands for U+00E9)
CharBytes(c) == IF Ord(c) < 128 THEN 1 ELSE 2

\* len(s.encode()): the characters of s, each counted with its width
EncodedLen(s) ==
    Cardinality({i \in 1..Len(s) : CharBytes(s[i]) = 1})
        + 2 * Cardinality({i \in 1..Len(s) : CharBytes(s[i]) = 2})

LowerChar(c) ==
    CASE c = "S" -> "s"
      [] c = "X" -> "x"
      [] OTHER -> c

Lower(s) == [i \in 1..Len(s) |-> LowerChar(s[i])]

\* str.replace(c, "")
Remove(s, c) == SelectSeq(s, LAMBDA x : x # c)

RECURSIVE LStrip(_)
LStrip(s) == IF s # <<>> /\ Head(s) \in Whitespace THEN LStrip(Tail(s)) ELSE s

RECURSIVE RStrip(_)
RStrip(s) ==
    IF s # <<>> /\ s[Len(s)] \in Whitespace THEN RStrip(SubSeq(s, 1, Len(s) - 1)) ELSE s

Strip(s) == RStrip(LStrip(s))

EndsWith(s, suf) ==
    /\ Len(suf) <= Len(s)
    /\ SubSeq(s, Len(s) - Len(suf) + 1, Len(s)) = suf

\* str.endswith(tuple)
EndsWithAny(s, sufs) == \E suf \in sufs : EndsWith(s, suf)

\* s[:n]
Prefix(s, n) == SubSeq(s, 1, IF n < Len(s) THEN n ELSE Len(s))

\* os.path.splitext(s)[1] for a name without separators: the text from the
\* last dot, unless only dots precede it
SplitExt(s) ==
    LET dots == {i \in 1..Len(s) : s[i] = "."}
    IN  IF dots = {} THEN <<>>
        ELSE LET d == CHOOSE i \in dots : \A j \in dots : j <= i
             IN  IF \E k \in 1..(d - 1) : s[k] # "."
                 THEN SubSeq(s, d, Len(s))
                 ELSE <<>>

\* lexicographic order of two strings by code point
RECURSIVE StrLess(_, _)
StrLess(a, b) ==
    IF b = <<>> THEN FALSE
    ELSE IF a = <<>> THEN TRUE
    ELSE IF Ord(Head(a)) # Ord(Head(b)) THEN Ord(Head(a)) < Ord(Head(b))
    ELSE StrLess(Tail(a), Tail(b))

\* --------------------------------------------------- the remote tree
\* Drive objects of the run: a folder "f" holding the folder "S/" (which
\* holds a shortcut "c" to a binary file), the document "a" and the file
\* "b.X"; and a file whose name, 127 two-byte characters and ".a", encodes
\* to 256 bytes.  A run's link names the folder or one of the files.
NoShortcut == [targetId |-> 0, targetMimeType |-> None]

LongName == [i \in 1..(NameMaxBytes \div 2) |-> "E"] \o <<".", "a">>

Items ==
    [i \in 1..7 |->
        CASE i = 1 -> [id |-> 1, name |-> <<"f">>, mimeType |-> G_DRIVE_DIR_MIME_TYPE,
                       shortcutDetails |-> NoShortcut]
          [] i = 2 -> [id |-> 2, name |-> <<"a">>, mimeType |-> DocMime,
                       shortcutDetails |-> NoShortcut]
          [] i = 3 -> [id |-> 3, name |-> <<"b", ".", "X">>, mimeType |-> BinMime,
                       shortcutDetails |-> NoShortcut]
          [] i = 4 -> [id |-> 4, name |-> <<"S", "/">>, mimeType |-> G_DRIVE_DIR_MIME_TYPE,
                       shortcutDetails |-> NoShortcut]
          [] i = 5 -> [id |-> 5, name |-> <<"c">>,
                       mimeType |-> "application/vnd.google-apps.shortcut",
                       shortcutDetails |-> [targetId |-> 6, targetMimeType |-> BinMime]]
          [] i = 6 -> [id |-> 6, name |-> <<"c">>, mimeType |-> BinMime,
                       shortcutDetails |-> NoShortcut]
          [] OTHER -> [id |-> 7, name |-> LongName, mimeType |-> BinMime,
                       shortcutDetails |-> NoShortcut]]

Children(folder_id) ==
    CASE folder_id = 1 -> {2, 3, 4}
      [] folder_id = 4 -> {5}
      [] OTHER -> {}

Roots == {1, 2, 3}
FileRoots == {2, 3, 7}

\* listener.excluded_extensions and the download directory (self._path)
ExcludedExtensions == {<<"x">>}
BasePath == <<"d">>

\* sorted(result, key=lambda k: k["name"]) of a folder's listing
SortedByName(ids) ==
    CHOOSE q \in [1..Cardinality(ids) -> ids] :
        /\ \A i, j \in 1..Cardinality(ids) : i # j => q[i] # q[j]
        /\ \A i \in 1..(Cardinality(ids) - 1) :
               ~StrLess(Items[q[i + 1]].name, Items[q[i]].name)

\* ------------------------------------------------ transport failures
\* An HttpError: resp.status, whether resp["content-type"] is
\* application/json, the first error's reason of the body, and the message.
HttpErr(status, json, reason, message) ==
    [status |-> status, json |-> json, reason |-> reason, message |-> message]

TransientErrors ==
    {HttpErr(st, js, IF js THEN "backendError" ELSE "", "Backend Error") :
        st \in TransientStatus, js \in BOOLEAN}

FaultErrors ==
    { HttpErr(403, TRUE, "downloadQuotaExceeded", "The download quota has been exceeded"),
      HttpErr(403, TRUE, "dailyLimitExceeded", "Daily Limit Exceeded"),
      HttpErr(403, TRUE, "fileNotDownloadable", "Only files with binary content"),
      HttpErr(404, TRUE, "notFound", "File not found"),
      HttpErr(400, FALSE, "", "Bad Request") }

\* exceptions in flight
NoExc == [type |-> "None"]
HttpError(e) == [type |-> "HttpError", err |-> e]
OSError == [type |-> "OSError"]
RetryError(last) == [type |-> "RetryError", last_attempt |-> last]

\* str(err) as a sequence of words: HttpError.__repr__ shows the status, the
\* message and, for a JSON body, the error details (which hold the reason);
\* RetryError.__str__ shows only the future of the last attempt.
Str(x) ==
    CASE x.type = "HttpError" ->
             <<"<", "HttpError", x.err.message>>
             \o (IF x.err.json THEN <<"Details", x.err.reason>> ELSE <<>>)
             \o <<">">>
      [] x.type = "RetryError" ->
             <<"RetryError", "[", "<", "Future", "raised", x.last_attempt.type, ">", "]">>
      [] OTHER -> <<"Connection reset by peer">>

\* `word in err'
Contains(s, word) == \E i \in 1..Len(s) : s[i] = word

\* -------------------------------------------------------------- state
VARIABLES
    stack,          \* call stack of the worker, innermost frame last
    exc,            \* the exception being raised, NoExc when none
    root,           \* the object the listener's link names
    is_cancelled,   \* listener.is_cancelled
    name,           \* listener.name
    use_sa,         \* self.use_sa
    alt_auth,       \* self.alt_auth
    sa_count,       \* self.sa_count
    sa_index,       \* self.sa_index
    timers,         \* every SetInterval created: "running" or "cancelled"
    updater,        \* self._updater, an index into timers (0: None)
    files,          \* local files: path -> sequence of chunks written
    dirs,           \* local directories
    handles,        \* every FileIO opened: [path, open], open until fh.close()
    errors,         \* messages passed to listener.on_download_error
    completes,      \* number of calls of listener.on_download_complete
    nFaults,        \* non-transient failures the transport may still inject
    nTrans,         \* transient-status failures the transport may still inject
    started,        \* _download_file calls made by download/_download_folder
    cancelMid,      \* the caller set is_cancelled while a chunk loop ran
    lateRequest,    \* a chunk request was issued with is_cancelled set
    reruns,         \* times download() called itself
    escaped,        \* exceptions that reached the except block of download()
    last,           \* how the most recent transfer attempt ended
    failed,         \* executions of _download_file, for the object the caller
                    \* handed over, that ended with an exception
    exports         \* restarts in export mode for that object

vars ==
    << stack, exc, root, is_cancelled, name, use_sa, alt_auth, sa_count, sa_index,
       timers, updater, files, dirs, handles, errors, completes, nFaults, nTrans,
       started, cancelMid, lateRequest, reruns, escaped, last, failed, exports >>

Top == stack[Len(stack)]
Pop == SubSeq(stack, 1, Len(stack) - 1)
SetTop(f) == [stack EXCEPT ![Len(stack)] = f]
Running(kind, pc) == stack # <<>> /\ Top.kind = kind /\ Top.pc = pc
Raising == exc.type # "None"

Join(path, filename) == path \o <<"/">> \o filename

NoAttempt ==
    [outcome |-> "none", reason |-> "", k |-> 0, others |-> 0, data |-> <<>>, dest |-> <<>>,
     file_id |-> 0, sa |-> 0, fh |-> 0]

DownloadFrame == [kind |-> "download", pc |-> "enter", err |-> <<>>]

FolderFrame(folder_id, path, folder_name) ==
    [kind |-> "folder", pc |-> "enter", folder_id |-> folder_id, path |-> path,
     folder_name |-> folder_name, result |-> <<>>, idx |-> 0]

\* the frame of the tenacity wrapper of one _download_file call
RetryFrame(file_id, path, filename, mime_type, export) ==
    [kind |-> "retry", pc |-> "call", attempt |-> 1, file_id |-> file_id, path |-> path,
     filename |-> filename, mime_type |-> mime_type, export |-> export]

\* the frame of one execution of the body of _download_file; `late' tells
\* that listener.is_cancelled was set when the execution began
FileFrame(file_id, path, filename, mime_type, export) ==
    [kind |-> "file", pc |-> "prepare", file_id |-> file_id, path |-> path,
     filename |-> filename, mime_type |-> mime_type, export |-> export,
     retries |-> 0, progress |-> 0, fh |-> 0, k |-> 0, others |-> 0,
     late |-> is_cancelled]

\* self._download_file(...): the decorated method, so every call, also a
\* call from inside _download_file, runs under a retry wrapper of its own
CallDownloadFile(file_id, path, filename, mime_type, export) ==
    << RetryFrame(file_id, path, filename, mime_type, export),
       FileFrame(file_id, path, filename, mime_type, export) >>

\* the state when download() is called, `local' being the files the download
\* directory already holds
InitState(roots, faults, transients, local) ==
    /\ root \in roots
    /\ use_sa \in BOOLEAN
    /\ stack = <<DownloadFrame>>
    /\ exc = NoExc
    /\ is_cancelled = FALSE
    /\ name = Items[root].name
    /\ alt_auth = FALSE
    /\ sa_count = 0
    /\ sa_index = 0
    /\ timers = <<>>
    /\ updater = 0
    /\ files = local
    /\ dirs = {}
    /\ handles = <<>>
    /\ errors = <<>>
    /\ completes = 0
    /\ nFaults = faults
    /\ nTrans = transients
    /\ started = {}
    /\ cancelMid = FALSE
    /\ lateRequest = FALSE
    /\ reruns = 0
    /\ escaped = 0
    /\ last = NoAttempt
    /\ failed = 0
    /\ exports = 0

\* a download directory that holds no file yet
InitWith(roots, faults, transients) == InitState(roots, faults, transients, << >>)

Init == InitWith(Roots, MaxFaults, MaxTransient)

\* a folder run into a directory that holds, from an earlier run, the file
\* "a" of the folder "f"
LocalFiles == (Join(Join(BasePath, <<"f">>), <<"a">>) :> <<0>>)

InitLocal == InitState({1}, MaxFaults, MaxTransient, LocalFiles)

\* runs whose link names a file, with more failures
InitFile == InitWith(FileRoots, MaxFaultsFile, MaxTransient)

\* runs whose link names a file, with few failures of other kinds and enough
\* transient ones to pass the ceiling of the in-place retries
InitLong == InitWith(FileRoots, MaxFaultsLong, MaxTransientLong)

\* ------------------------------------------------ the caller's thread
\* The caller sets listener.is_cancelled, at any moment of the run.
SetCancelled ==
    /\ stack # <<>>
    /\ ~is_cancelled
    /\ is_cancelled' = TRUE
    /\ cancelMid' = (cancelMid \/ (Top.kind = "file" /\ Top.pc \in {"loop", "inflight"}))
    /\ UNCHANGED << stack, exc, root, name, use_sa, alt_auth, sa_count, sa_index, timers,
                    updater, files, dirs, handles, errors, completes, nFaults, nTrans,
                    started, lateRequest, reruns, escaped, last, failed, exports >>

\* ----------------------------------------------------------- download
\* failures of get_file_metadata and get_files_by_folder_id
MetaErrors ==
    { HttpErr(404, TRUE, "notFound", "File not found"),
      HttpErr(400, FALSE, "", "Bad Request") }

\* self._updater.cancel()
Cancel(ts, u) == [ts EXCEPT ![u] = "cancelled"]

\* line 58 left out: the timer of the abandoned run keeps running
CancelBeforeRerunMissing(ts, u) == ts

\* line 58: the timer of the run that is abandoned for the re-run
CancelBeforeRerun(ts, u) == Cancel(ts, u)

\* lines 47-50: the text of the error the handler classifies
ErrText(x) ==
    LET err == IF x.type = "RetryError" THEN x.last_attempt ELSE x
    IN  Remove(Remove(Str(err), ">"), "<")

\* line 54 without its test: every 'File not found' is re-run
AltAuthRetryAlways(alt, sa) == TRUE

\* line 54
AltAuthRetry(alt, sa) == ~alt /\ sa

\* line 56 left out: the re-run keeps the service accounts
UseSaForRerunKept == TRUE

\* line 56: self.use_sa for the re-run
UseSaForRerun == FALSE

\* lines 51-60: "rerun", or the message for on_download_error
Classify(text, alt, sa) ==
    IF Contains(text, "downloadQuotaExceeded") THEN <<"Download Quota Exceeded.">>
    ELSE IF Contains(text, "File not found")
         THEN IF AltAuthRetry(alt, sa) THEN <<"rerun">> ELSE <<"File not found!">>
         ELSE text

\* line 59 without `return': the handler goes on to report the error
AfterRerunFallsThrough == "report"

\* line 59: `return self.download()' leaves through the finally block
AfterRerun == "finally"

\* line 62 left out: the flag stays as the caller left it
CancelledAfterErrorUnset(c) == c

\* line 62: listener.is_cancelled after on_download_error
CancelledAfterError(c) == TRUE

\* lines 31-45: resolve the link, authorize, start the progress timer, fetch
\* the metadata and enter _download_folder or _download_file
DownloadBegin ==
    /\ Running("download", "enter")
    /\ timers' = Append(timers, "running")
    /\ updater' = Len(timers) + 1
    /\ \/ /\ exc' = exc
          /\ nFaults' = nFaults
          /\ IF Items[root].mimeType = G_DRIVE_DIR_MIME_TYPE
             THEN /\ stack' = Append(SetTop([Top EXCEPT !.pc = "call"]),
                                     FolderFrame(root, BasePath, name))
                  /\ UNCHANGED << dirs, started, failed, exports >>
             ELSE /\ stack' = SetTop([Top EXCEPT !.pc = "call"])
                              \o CallDownloadFile(root, BasePath, name,
                                                  Items[root].mimeType, FALSE)
                  /\ dirs' = dirs \cup {BasePath}
                  /\ started' = started \cup {[filename |-> name, by |-> "download"]}
                  /\ failed' = 0
                  /\ exports' = 0
       \/ /\ nFaults > 0
          /\ nFaults' = nFaults - 1
          /\ \E e \in MetaErrors : exc' = HttpError(e)
          /\ stack' = SetTop([Top EXCEPT !.pc = "call"])
          /\ UNCHANGED << dirs, started, failed, exports >>
    /\ UNCHANGED << root, is_cancelled, name, use_sa, alt_auth, sa_count, sa_index, files,
                    handles, errors, completes, nTrans, cancelMid, lateRequest, reruns,
                    escaped, last >>

\* the try block ended without an exception
DownloadReturn ==
    /\ Running("download", "call")
    /\ ~Raising
    /\ stack' = SetTop([Top EXCEPT !.pc = "finally"])
    /\ UNCHANGED << exc, root, is_cancelled, name, use_sa, alt_auth, sa_count, sa_index,
                    timers, updater, files, dirs, handles, errors, completes, nFaults,
                    nTrans, started, cancelMid, lateRequest, reruns, escaped, last,
                    failed, exports >>

\* lines 46-60: the except block, up to the re-run or the message to report
DownloadExcept ==
    /\ Running("download", "call")
    /\ Raising
    /\ exc' = NoExc
    /\ escaped' = escaped + 1
    /\ LET msg == Classify(ErrText(exc), alt_auth, use_sa)
       IN  IF msg = <<"rerun">>
           THEN /\ alt_auth' = TRUE
                /\ use_sa' = UseSaForRerun
                /\ timers' = CancelBeforeRerun(timers, updater)
                /\ stack' = Append(SetTop([Top EXCEPT !.pc = "rerun", !.err = ErrText(exc)]),
                                   DownloadFrame)
                /\ reruns' = reruns + 1
           ELSE /\ stack' = SetTop([Top EXCEPT !.pc = "report", !.err = msg])
                /\ UNCHANGED << alt_auth, use_sa, timers, reruns >>
    /\ UNCHANGED << root, is_cancelled, name, sa_count, sa_index, updater, files, dirs,
                    handles, errors, completes, nFaults, nTrans, started, cancelMid,
                    lateRequest, last, failed, exports >>

\* line 59: the nested download() has returned
DownloadRerunReturn ==
    /\ Running("download", "rerun")
    /\ stack' = SetTop([Top EXCEPT !.pc = AfterRerun])
    /\ UNCHANGED << exc, root, is_cancelled, name, use_sa, alt_auth, sa_count, sa_index,
                    timers, updater, files, dirs, handles, errors, completes, nFaults,
                    nTrans, started, cancelMid, lateRequest, reruns, escaped, last,
                    failed, exports >>

\* lines 61-62
DownloadReport ==
    /\ Running("download", "report")
    /\ errors' = Append(errors, Top.err)
    /\ is_cancelled' = CancelledAfterError(is_cancelled)
    /\ stack' = SetTop([Top EXCEPT !.pc = "finally"])
    /\ UNCHANGED << exc, root, name, use_sa, alt_auth, sa_count, sa_index, timers, updater,
                    files, dirs, handles, completes, nFaults, nTrans, started, cancelMid,
                    lateRequest, reruns, escaped, last, failed, exports >>

\* lines 63-67: the finally block, then the return
DownloadFinally ==
    /\ Running("download", "finally")
    /\ timers' = Cancel(timers, updater)
    /\ completes' = IF ~is_cancelled THEN completes + 1 ELSE completes
    /\ stack' = Pop
    /\ UNCHANGED << exc, root, is_cancelled, name, use_sa, alt_auth, sa_count, sa_index,
                    updater, files, dirs, handles, errors, nFaults, nTrans, started,
                    cancelMid, lateRequest, reruns, escaped, last, failed, exports >>

\* ---------------------------------------------------- _download_folder
\* ospath.isfile
IsFile(p) == p \in DOMAIN files

\* line 89-90: the local path tested for an existing file
LocalCandidate(path, filename) == path \o filename

\* lines 91-93 without .lower()
ExcludedCaseSensitive(filename) == EndsWithAny(Strip(filename), ExcludedExtensions)

\* lines 91-93
Excluded(filename) == EndsWithAny(Lower(Strip(filename)), ExcludedExtensions)

\* lines 95-96 and the end of the for loop: the frame after a child
AfterChild(f) ==
    IF is_cancelled \/ f.idx = Len(f.result)
    THEN Pop
    ELSE SetTop([f EXCEPT !.pc = "loop", !.idx = f.idx + 1])

\* lines 70-77
FolderEnter ==
    /\ Running("folder", "enter")
    /\ LET folder_name == Remove(Top.folder_name, "/")
           path == Join(Top.path, folder_name)
           result == SortedByName(Children(Top.folder_id))
       IN  /\ dirs' = dirs \cup {path}
           /\ \/ /\ stack' = IF Len(result) = 0
                             THEN Pop
                             ELSE SetTop([Top EXCEPT !.pc = "loop", !.path = path,
                                                     !.folder_name = folder_name,
                                                     !.result = result, !.idx = 1])
                 /\ UNCHANGED << exc, nFaults >>
              \/ /\ nFaults > 0
                 /\ nFaults' = nFaults - 1
                 /\ \E e \in MetaErrors : exc' = HttpError(e)
                 /\ stack' = Pop
    /\ UNCHANGED << root, is_cancelled, name, use_sa, alt_auth, sa_count, sa_index, timers,
                    updater, files, handles, errors, completes, nTrans, started, cancelMid,
                    lateRequest, reruns, escaped, last, failed, exports >>

\* lines 78-96: one child of the listing
FolderItem ==
    /\ Running("folder", "loop")
    /\ LET item == Items[Top.result[Top.idx]]
           shortcut == item.shortcutDetails # NoShortcut
           file_id == IF shortcut THEN item.shortcutDetails.targetId ELSE item.id
           mime_type == IF shortcut THEN item.shortcutDetails.targetMimeType
                        ELSE item.mimeType
           called == [Top EXCEPT !.pc = "call"]
       IN  IF mime_type = G_DRIVE_DIR_MIME_TYPE
           THEN /\ stack' = Append(SetTop(called), FolderFrame(file_id, Top.path, item.name))
                /\ UNCHANGED << started, failed, exports >>
           ELSE IF ~IsFile(LocalCandidate(Top.path, item.name)) /\ ~Excluded(item.name)
           THEN /\ stack' = SetTop(called)
                            \o CallDownloadFile(file_id, Top.path, item.name, mime_type, FALSE)
                /\ started' = started \cup {[filename |-> item.name, by |-> "folder"]}
                /\ failed' = 0
                /\ exports' = 0
           ELSE /\ stack' = AfterChild(Top)
                /\ UNCHANGED << started, failed, exports >>
    /\ UNCHANGED << exc, root, is_cancelled, name, use_sa, alt_auth, sa_count, sa_index,
                    timers, updater, files, dirs, handles, errors, completes, nFaults,
                    nTrans, cancelMid, lateRequest, reruns, escaped, last >>

\* the child's call returned: lines 95-96
FolderAfterChild ==
    /\ Running("folder", "call")
    /\ ~Raising
    /\ stack' = AfterChild(Top)
    /\ UNCHANGED << exc, root, is_cancelled, name, use_sa, alt_auth, sa_count, sa_index,
                    timers, updater, files, dirs, handles, errors, completes, nFaults,
                    nTrans, started, cancelMid, lateRequest, reruns, escaped, last,
                    failed, exports >>

\* the child's call raised: _download_folder catches nothing
FolderRaise ==
    /\ Running("folder", "call")
    /\ Raising
    /\ stack' = Pop
    /\ UNCHANGED << exc, root, is_cancelled, name, use_sa, alt_auth, sa_count, sa_index,
                    timers, updater, files, dirs, handles, errors, completes, nFaults,
                    nTrans, started, cancelMid, lateRequest, reruns, escaped, last,
                    failed, exports >>

\* ------------------------------------------- @retry of _download_file
\* lines 98-102: the wrapped call returned
RetryReturn ==
    /\ Running("retry", "call")
    /\ ~Raising
    /\ stack' = Pop
    /\ UNCHANGED << exc, root, is_cancelled, name, use_sa, alt_auth, sa_count, sa_index,
                    timers, updater, files, dirs, handles, errors, completes, nFaults,
                    nTrans, started, cancelMid, lateRequest, reruns, escaped, last,
                    failed, exports >>

\* lines 98-102: the wrapped call raised; call again, or raise RetryError
\* after stop_after_attempt(3)
RetryAgain ==
    /\ Running("retry", "call")
    /\ Raising
    /\ IF Top.attempt < StopAfterAttempt
       THEN /\ stack' = Append(SetTop([Top EXCEPT !.attempt = Top.attempt + 1]),
                               FileFrame(Top.file_id, Top.path, Top.filename,
                                         Top.mime_type, Top.export))
            /\ exc' = NoExc
       ELSE /\ stack' = Pop
            /\ exc' = RetryError(exc)
    /\ UNCHANGED << root, is_cancelled, name, use_sa, alt_auth, sa_count, sa_index, timers,
                    updater, files, dirs, handles, errors, completes, nFaults, nTrans,
                    started, cancelMid, lateRequest, reruns, escaped, last, failed, exports >>

\* ------------------------------------------------------ _download_file
PdfSuffix == <<".", "p", "d", "f">>

\* lines 115-120: the name the destination file is opened under
LocalName(filename, export) ==
    LET stripped == Remove(filename, "/")
        named == IF export THEN stripped \o PdfSuffix ELSE stripped
    IN  IF EncodedLen(named) > NameMaxBytes
        THEN Prefix(named, NameKeepChars) \o SplitExt(named)
        ELSE named

\* lines 118-123: listener.name after the name was shortened
ListenerName(filename, export, current) ==
    LET stripped == Remove(filename, "/")
        named == IF export THEN stripped \o PdfSuffix ELSE stripped
    IN  IF EncodedLen(named) > NameMaxBytes /\ EndsWith(Strip(current), SplitExt(named))
        THEN LocalName(filename, export)
        ELSE current

\* FileIO(path, "wb"): the content of the file once opened
OpenWb(content) == <<>>

WriteFile(fs, p, content) ==
    [q \in DOMAIN fs \cup {p} |-> IF q = p THEN content ELSE fs[q]]

Content(fs, p) == IF p \in DOMAIN fs THEN fs[p] ELSE <<>>

\* "document" in mime_type
MimeHasDocument(mime_type) == mime_type = DocMime

\* line 138 with 429 missing from the list of statuses
InPlaceRetryWithout429(e, retries) ==
    e.status \in {500, 502, 503, 504} /\ retries < RetryCeiling

\* line 138
InPlaceRetry(e, retries) == e.status \in TransientStatus /\ retries < RetryCeiling

\* self.switch_service_account(): the next account (wrapping), one more
\* rotation counted
NextSaIndex(i) == IF i = SaNumber - 1 THEN 0 ELSE i + 1
NextSaCount(c) == c + 1

\* how an attempt ended, for the properties below
Ended(f, outcome, reason, fs) ==
    [outcome |-> outcome, reason |-> reason, k |-> f.k, others |-> f.others,
     data |-> Content(fs, Join(f.path, f.filename)),
     dest |-> Join(f.path, f.filename), file_id |-> f.file_id, sa |-> sa_count,
     fh |-> f.fh]

\* line 159 with > for >=: one rotation more than sa_number
RotationsExhaustedOffByOne(count) == count > SaNumber

\* line 159: no rotation is left
RotationsExhausted(count) == count >= SaNumber

\* lines 136-175: what the handler of HttpError does with error e
OnHttpError(e, f, sa, count, cancelled) ==
    IF InPlaceRetry(e, f.retries) THEN "retry"
    ELSE IF e.json
    THEN IF e.reason = "fileNotDownloadable" /\ MimeHasDocument(f.mime_type) THEN "export"
         ELSE IF e.reason \notin QuotaReasons THEN "raise"
         ELSE IF sa
         THEN IF RotationsExhausted(count) THEN "raise"
              ELSE IF cancelled THEN "return"
              ELSE "rotate"
         ELSE "raise"
    ELSE "continue"

\* line 124 left out: the file is opened whatever the flag
CancelledBeforeOpenIgnored(c) == FALSE

\* line 124: the test of listener.is_cancelled before the file is opened
CancelledBeforeOpen(c) == c

\* lines 104-127: build the request, settle the name, open the file
FilePrepare ==
    /\ Running("file", "prepare")
    /\ LET filename == LocalName(Top.filename, Top.export)
           dest == Join(Top.path, filename)
       IN  /\ name' = ListenerName(Top.filename, Top.export, name)
           /\ IF CancelledBeforeOpen(is_cancelled)
              THEN /\ stack' = Pop
                   /\ UNCHANGED << files, handles >>
              ELSE /\ files' = WriteFile(files, dest, OpenWb(Content(files, dest)))
                   /\ handles' = Append(handles, [path |-> dest, open |-> TRUE])
                   /\ stack' = SetTop([Top EXCEPT !.pc = "loop", !.filename = filename,
                                                  !.fh = Len(handles) + 1])
    /\ last' = NoAttempt
    /\ UNCHANGED << exc, root, is_cancelled, use_sa, alt_auth, sa_count, sa_index, timers,
                    updater, dirs, errors, completes, nFaults, nTrans, started, cancelMid,
                    lateRequest, reruns, escaped, failed, exports >>

\* lines 130-135: the head of the loop, up to the chunk request
FileRequest ==
    /\ Running("file", "loop")
    /\ IF is_cancelled
       THEN /\ handles' = [handles EXCEPT ![Top.fh].open = FALSE]
            /\ stack' = Pop
            /\ last' = Ended(Top, "cancelled", "", files)
            /\ lateRequest' = lateRequest
       ELSE /\ stack' = SetTop([Top EXCEPT !.pc = "inflight"])
            /\ lateRequest' = (lateRequest \/ is_cancelled)
            /\ UNCHANGED << handles, last >>
    /\ UNCHANGED << exc, root, is_cancelled, name, use_sa, alt_auth, sa_count, sa_index,
                    timers, updater, files, dirs, errors, completes, nFaults, nTrans,
                    started, cancelMid, reruns, escaped, failed, exports >>

\* line 135: next_chunk() wrote the next chunk; lines 176-177 after the last
FileChunkOk ==
    /\ Running("file", "inflight")
    /\ LET dest == Join(Top.path, Top.filename)
           progress == Top.progress + 1
       IN  /\ files' = WriteFile(files, dest, Append(Content(files, dest), progress))
           /\ IF progress = NChunks
              THEN /\ stack' = Pop
                   /\ last' = Ended(Top, "completed", "", files')
              ELSE /\ stack' = SetTop([Top EXCEPT !.pc = "loop", !.progress = progress])
                   /\ last' = last
    /\ UNCHANGED << exc, root, is_cancelled, name, use_sa, alt_auth, sa_count, sa_index,
                    timers, updater, dirs, handles, errors, completes, nFaults, nTrans,
                    started, cancelMid, lateRequest, reruns, escaped, failed, exports >>

\* lines 136-175: next_chunk() raised HttpError e
FileChunkError ==
    /\ Running("file", "inflight")
    /\ \E e \in TransientErrors \cup FaultErrors :
        LET transient == e \in TransientErrors
            f == IF transient THEN [Top EXCEPT !.k = Top.k + 1]
                 ELSE [Top EXCEPT !.others = Top.others + 1]
            todo == OnHttpError(e, Top, use_sa, sa_count, is_cancelled)
        IN  /\ IF transient
               THEN nTrans > 0 /\ nTrans' = nTrans - 1 /\ nFaults' = nFaults
               ELSE nFaults > 0 /\ nFaults' = nFaults - 1 /\ nTrans' = nTrans
            /\ CASE todo = "retry" ->
                        /\ stack' = SetTop([f EXCEPT !.pc = "loop",
                                                     !.retries = f.retries + 1])
                        /\ UNCHANGED << exc, sa_count, sa_index, last, failed, exports >>
                 [] todo = "continue" ->
                        /\ stack' = SetTop([f EXCEPT !.pc = "loop"])
                        /\ UNCHANGED << exc, sa_count, sa_index, last, failed, exports >>
                 [] todo = "export" ->
                        /\ stack' = SetTop([f EXCEPT !.pc = "call"])
                                    \o CallDownloadFile(f.file_id, f.path, f.filename,
                                                        f.mime_type, TRUE)
                        /\ last' = Ended(f, "restarted", e.reason, files)
                        /\ exports' = exports + 1
                        /\ UNCHANGED << exc, sa_count, sa_index, failed >>
                 [] todo = "rotate" ->
                        /\ sa_index' = NextSaIndex(sa_index)
                        /\ sa_count' = NextSaCount(sa_count)
                        /\ stack' = SetTop([f EXCEPT !.pc = "call"])
                                    \o CallDownloadFile(f.file_id, f.path, f.filename,
                                                        f.mime_type, FALSE)
                        /\ last' = Ended(f, "restarted", e.reason, files)
                        /\ UNCHANGED << exc, failed, exports >>
                 [] todo = "return" ->
                        /\ stack' = Pop
                        /\ last' = Ended(f, "cancelled", e.reason, files)
                        /\ UNCHANGED << exc, sa_count, sa_index, failed, exports >>
                 [] OTHER ->
                        /\ stack' = Pop
                        /\ exc' = HttpError(e)
                        /\ last' = Ended(f, "raised", e.reason, files)
                        /\ failed' = failed + 1
                        /\ UNCHANGED << sa_count, sa_index, exports >>
    /\ UNCHANGED << root, is_cancelled, name, use_sa, alt_auth, timers, updater, files,
                    dirs, handles, errors, completes, started, cancelMid, lateRequest,
                    reruns, escaped >>

\* line 135: next_chunk() raised an exception that is no HttpError
FileChunkException ==
    /\ Running("file", "inflight")
    /\ nFaults > 0
    /\ nFaults' = nFaults - 1
    /\ stack' = Pop
    /\ exc' = OSError
    /\ last' = Ended([Top EXCEPT !.others = Top.others + 1], "raised", "", files)
    /\ failed' = failed + 1
    /\ UNCHANGED << root, is_cancelled, name, use_sa, alt_auth, sa_count, sa_index, timers,
                    updater, files, dirs, handles, errors, completes, nTrans, started,
                    cancelMid, lateRequest, reruns, escaped, exports >>

\* lines 146 and 168: `return self._download_file(...)', with its result or
\* its exception
FileCallReturn ==
    /\ Running("file", "call")
    /\ stack' = Pop
    /\ failed' = IF Raising THEN failed + 1 ELSE failed
    /\ UNCHANGED << exc, root, is_cancelled, name, use_sa, alt_auth, sa_count, sa_index,
                    timers, updater, files, dirs, handles, errors, completes, nFaults,
                    nTrans, started, cancelMid, lateRequest, reruns, escaped, last,
                    exports >>

\* -------------------------------------------------------- specification
\* the steps of a run whose link names a file: _download_folder is not entered
NextFile ==
    \/ SetCancelled
    \/ DownloadBegin
    \/ DownloadReturn
    \/ DownloadExcept
    \/ DownloadRerunReturn
    \/ DownloadReport
    \/ DownloadFinally
    \/ RetryReturn
    \/ RetryAgain
    \/ FilePrepare
    \/ FileRequest
    \/ FileChunkOk
    \/ FileChunkError
    \/ FileChunkException
    \/ FileCallReturn

Next ==
    \/ SetCancelled
    \/ DownloadBegin
    \/ DownloadReturn
    \/ DownloadExcept
    \/ DownloadRerunReturn
    \/ DownloadReport
    \/ DownloadFinally
    \/ FolderEnter
    \/ FolderItem
    \/ FolderAfterChild
    \/ FolderRaise
    \/ RetryReturn
    \/ RetryAgain
    \/ FilePrepare
    \/ FileRequest
    \/ FileChunkOk
    \/ FileChunkError
    \/ FileChunkException
    \/ FileCallReturn

Spec == Init /\ [][Next]_vars

SpecFile == InitFile /\ [][NextFile]_vars

SpecLong == InitLong /\ [][NextFile]_vars

SpecLocal == InitLocal /\ [][Next]_vars

Done == stack = <<>>

\* ======================================================== properties
Cancelled(ts) == \A i \in 1..Len(ts) : ts[i] = "cancelled"

\* C1: when the top-level download() has returned, on whichever path, every
\* progress timer started during the run has been cancelled.
C1_TimersCancelledOnReturn == Done => Cancelled(timers)

\* a run that went through the alternate-auth re-run has returned, having
\* started two timers
C1_Witness == Done /\ reruns = 1 /\ Len(timers) = 2

\* C2: once the caller has set is_cancelled while a chunk loop was running,
\* no chunk request is issued with the flag set and the run calls neither
\* on_download_complete nor on_download_error.
C2_CancelMidTransferIsSilent ==
    cancelMid => (~lateRequest /\ errors = <<>> /\ completes = 0)

\* C3: on_download_error is never called more than once, and a run that ended
\* with an exception that reached download() and was not absorbed by the
\* re-run has called it exactly once.
C3_ErrorReportedExactlyOnce ==
    /\ Len(errors) <= 1
    /\ (Done /\ escaped > reruns) => Len(errors) = 1

\* a run whose re-run failed as well has returned
C3_Witness == Done /\ reruns = 1 /\ escaped = 2 /\ Len(errors) = 1

\* C4: once on_download_error has been called, no step of the run calls
\* on_download_complete.
C4_NoCompleteAfterError == [][errors # <<>> => completes' = completes]_vars

\* the error was reported in the re-run and both finally blocks have run with
\* the caller never having cancelled
C4_Witness == Done /\ reruns = 1 /\ errors # <<>> /\ ~cancelMid /\ completes = 0

\* C5: on_download_complete is called at most once in a run.
C5_CompleteAtMostOnce == completes <= 1

\* an exception whose text holds "File not found" (and is no quota error)
\* has reached the except block, and the worker takes its step
FileNotFoundEscapes ==
    /\ Running("download", "call")
    /\ Raising
    /\ Contains(ErrText(exc), "File not found")
    /\ ~Contains(ErrText(exc), "downloadQuotaExceeded")
    /\ stack' # stack

\* C6, as claimed: a 'File not found' met on the primary credential with the
\* latch unset is not reported but re-run, and the re-run uses the service
\* credentials.
C6_RetryFromPrimaryToService ==
    /\ (Running("download", "report") /\ Top.err = <<"File not found!">> /\ ~use_sa)
           => alt_auth
    /\ reruns >= 1 => use_sa

\* C6, amended: a 'File not found' met while the service accounts are in use
\* and the latch is unset sets the latch, sets use_sa to False, cancels the
\* timer and calls download() again with the same inputs; any other 'File
\* not found' is reported as "File not found!" without a re-run; download()
\* calls itself at most once.
C6_RetryFromServiceToToken ==
    /\ [][FileNotFoundEscapes =>
             IF use_sa /\ ~alt_auth
             THEN /\ alt_auth' /\ ~use_sa'
                  /\ reruns' = reruns + 1
                  /\ timers'[updater] = "cancelled"
                  /\ stack'[Len(stack) + 1] = DownloadFrame
                  /\ root' = root /\ name' = name
                  /\ errors' = errors
             ELSE /\ stack'[Len(stack)].pc = "report"
                  /\ stack'[Len(stack)].err = <<"File not found!">>
                  /\ reruns' = reruns]_vars
    /\ [](reruns <= 1)

\* the re-run met 'File not found' again and the run ended with that report
C6_Witness == Done /\ reruns = 1 /\ errors = << <<"File not found!">> >>

\* the chunks of the destination of the attempt that runs are the chunks
\* that attempt has written, in order
WrittenByAttempt ==
    (stack # <<>> /\ Top.kind = "file" /\ Top.pc \in {"loop", "inflight"})
        => Content(files, Join(Top.path, Top.filename)) = [i \in 1..Top.progress |-> i]

\* C7: a quota-exceeded failure met with service accounts in use and
\* rotations left, the run not cancelled, performs one rotation and calls
\* _download_file again for the same object, from chunk 0, with the same
\* destination file; and the file an attempt writes holds only what that
\* attempt wrote.
C7_RotationRestartsSameFile ==
    /\ (last.outcome = "restarted" /\ last.reason \in QuotaReasons) =>
           /\ sa_count = last.sa + 1
           /\ Running("file", "prepare")
           /\ Top.file_id = last.file_id
           /\ Top.progress = 0
           /\ Join(Top.path, LocalName(Top.filename, Top.export)) = last.dest
    /\ WrittenByAttempt

\* C8: a run whose last attempt ended with a quota-exceeded error raised has
\* passed "Download Quota Exceeded." to on_download_error.
C8_QuotaMessageNormalized ==
    (Done /\ last.outcome = "raised" /\ last.reason \in QuotaReasons)
        => errors = << <<"Download Quota Exceeded.">> >>

\* C9: an attempt in which fewer than 10 chunk requests failed with a
\* transient status and no other request failed writes the chunks in order,
\* none skipped or repeated, and, unless cancelled, ends completed with all
\* the chunks written and without a restart.
C9_TransientRetriesKeepTheData ==
    /\ (stack # <<>> /\ Top.kind = "file" /\ Top.pc \in {"loop", "inflight"}
        /\ Top.k < RetryCeiling /\ Top.others = 0)
           => Content(files, Join(Top.path, Top.filename)) = [i \in 1..Top.progress |-> i]
    /\ (last.outcome \notin {"none", "cancelled"} /\ last.k < RetryCeiling
        /\ last.others = 0)
           => (last.outcome = "completed" /\ last.data = [i \in 1..NChunks |-> i])

\* an attempt completed after nine transient failures
C9_Witness ==
    last.outcome = "completed" /\ last.k = RetryCeiling - 1 /\ last.others = 0

\* C10, as claimed: no _download_file call, from download() or from
\* _download_folder, is for a name whose lowercase form ends with an
\* excluded suffix.
C10_NoExcludedTransfer ==
    \A t \in started : ~EndsWithAny(Lower(t.filename), ExcludedExtensions)

\* C10, amended: no _download_file call made by _download_folder is for a
\* name whose lowercase form ends with an excluded suffix.
C10_NoExcludedChildTransfer ==
    \A t \in started :
        t.by = "folder" => ~EndsWithAny(Lower(t.filename), ExcludedExtensions)

\* a folder run that was not cancelled went through all children, "b.X" too
C10_Witness ==
    /\ Done /\ root = 1 /\ completes = 1
    /\ [filename |-> <<"a">>, by |-> "folder"] \in started

\* C11: during the folder traversal no transfer is started for a child whose
\* file <path>/<filename> the destination directory already holds, and that
\* file is neither truncated nor rewritten.
C11_ExistingLocalFileSkipped ==
    /\ \A i \in 1..Len(stack) :
           stack[i].kind = "retry"
               => Join(stack[i].path, stack[i].filename) \notin DOMAIN LocalFiles
    /\ \A p \in DOMAIN LocalFiles : p \in DOMAIN files /\ files[p] = LocalFiles[p]

\* the name a local file was opened under
OpenedName(h) == SubSeq(h.path, Len(BasePath) + 2, Len(h.path))

\* C12: a file whose name encodes to more than 255 bytes is opened under a
\* name that encodes to at most 255 bytes and has the extension of the
\* original name.
C12_ShortenedNameFits ==
    \A i \in 1..Len(handles) :
        EncodedLen(Items[root].name) > NameMaxBytes =>
            /\ EncodedLen(OpenedName(handles[i])) <= NameMaxBytes
            /\ SplitExt(OpenedName(handles[i])) = SplitExt(Items[root].name)

\* C13: a chunk request's HttpError that is not retried in place ends the
\* attempt (raised, or answered by a restart or by the return on
\* cancellation): an attempt still in its chunk loop has met no failure
\* other than those it retried in place under the ceiling.
C13_OtherErrorsAreRaised ==
    (stack # <<>> /\ Top.kind = "file" /\ Top.pc \in {"loop", "inflight"})
        => (Top.others = 0 /\ Top.k = Top.retries)

\* C14: within one attempt, the failed chunk requests after which the loop
\* requested a chunk again in place number at most 10.
C14_InPlaceRetriesBounded ==
    (stack # <<>> /\ Top.kind = "file" /\ Top.pc \in {"loop", "inflight"})
        => Top.k + Top.others <= RetryCeiling

\* C15: for one object handed to _download_file by download() or by
\* _download_folder, at most 3 executions of _download_file end with an
\* exception.
C15_AtMostThreeFailedAttempts == failed <= StopAfterAttempt

\* C16: for one object, the transfer is restarted in export mode at most once.
C16_ExportRestartsOnce == exports <= 1

\* C17: in every state sa_count is at most sa_number, and a step that
\* changes sa_count is one rotation, performed with the service accounts in
\* use.
C17_RotationsWithinMaximum ==
    /\ [](sa_count <= SaNumber)
    /\ [][sa_count' # sa_count => (use_sa /\ sa_count' = sa_count + 1)]_vars

\* a folder run has used up its rotations and a later quota failure was raised
C17_Witness ==
    /\ root = 1 /\ use_sa /\ sa_count = SaNumber
    /\ last.outcome = "raised" /\ last.reason \in QuotaReasons

\* C18: an execution of _download_file that began with is_cancelled set
\* opens no local file and issues no chunk request; and when a child of a
\* folder has returned with the flag set, _download_folder returns without
\* going on to a sibling, at every level.
C18_NothingStartsOnceCancelled ==
    /\ [](\A i \in 1..Len(stack) :
             (stack[i].kind = "file" /\ stack[i].late)
                 => (stack[i].pc = "prepare" /\ stack[i].fh = 0))
    /\ [][(is_cancelled /\ Running("folder", "call") /\ stack' # stack)
             => (stack' = Pop /\ started' = started /\ handles' = handles)]_vars

\* in a folder with children left, a transfer begun after the flag was set
\* has returned without opening a file
C18_Witness ==
    /\ is_cancelled /\ ~Raising /\ Running("folder", "call")
    /\ Top.idx < Len(Top.result)
    /\ started # {} /\ handles = <<>>

\* C19: when a transfer has ended completed, or cancelled at the head of the
\* chunk loop, the file it opened has been closed.
C19_HandleClosedOnReturn ==
    (\/ last.outcome = "completed"
     \/ last.outcome = "cancelled" /\ last.reason = "")
        => ~handles[last.fh].open

DownloadDepth == Cardinality({i \in 1..Len(stack) : stack[i].kind = "download"})

\* C20: download() calls itself at most once in a run, so at most two
\* executions of download() are ever on the stack.
C20_RerunAtMostOnce == reruns <= 1 /\ DownloadDepth <= 2

\* the re-run has met 'File not found' in its turn and reports it
C20_Witness ==
    /\ reruns = 1 /\ DownloadDepth = 2
    /\ Running("download", "report") /\ Top.err = <<"File not found!">>

====
